---- MODULE Spec2Model ----
(***************************************************************************)
(* xsync::XScope<LockType> (ext/xsync/include/scope.hpp): an RAII guard    *)
(* that runs a critical section inside an RTM hardware transaction and     *)
(* falls back to a lock.  Each thread constructs one XScope on the same    *)
(* fallback lock, runs a body that increments a shared counter with a      *)
(* non-atomic read-then-write and registers commit callbacks, and then     *)
(* destroys the scope.                                                     *)
(***************************************************************************)
EXTENDS Integers, Sequences, FiniteSets

\* ------------------------------------------------------------------ bounds

NThreads == 2
MaxCallbacks == 2

Threads == 1..NThreads

\* ------------------------------------------------- RTM status word (32 bit)

nretries == 3

\* The unsigned 32-bit status word of _xbegin() is kept as two fields:
\* hi = bits 31:24 (the _xabort code), lo = bits 23:0 (the flag bits).
Word(hi, lo) == [hi |-> hi % 256, lo |-> lo % 16777216]

\* _XBEGIN_STARTED is ~0u: every bit set
XBEGIN_STARTED == Word(255, 16777215)
XABORT_EXPLICIT == 1
XABORT_RETRY == 2
XABORT_CONFLICT == 4
CONTENTION_CODE == 255

\* status & bit, for a flag bit of the low 24 bits
HasBit(status, bit) == (status.lo \div bit) % 2 = 1

\* _XABORT_CODE(x): (x >> 24) & 0xFF
XABORT_CODE(status) == status.hi

\* the status word the hardware delivers for _xabort(code)
XAbortStatus(code) == Word(code, XABORT_EXPLICIT)

\* Abort statuses the hardware can report to _xbegin(): any combination of
\* the explicit and retry bits with an abort code of 0, 1 or 0xFF, and the
\* conflict aborts.
AbortCodes == {0, 1, CONTENTION_CODE}

ConflictStatuses ==
    {Word(0, XABORT_CONFLICT), Word(0, XABORT_CONFLICT + XABORT_RETRY)}

AbortStatuses ==
    { Word(c, e * XABORT_EXPLICIT + r * XABORT_RETRY) :
        e \in {0, 1}, r \in {0, 1}, c \in AbortCodes }
    \cup ConflictStatuses

NoStatus == Word(0, 0)
NoVal == 0 - 1

\* ------------------------------------------------------------------- state

VARIABLES
    pc,           \* per thread: position in XScope(), the body, ~XScope()
    attempt,      \* per thread: loop variable of enter()
    xact_status,  \* per thread: local of enter(), NoStatus when dead
    cbs,          \* per thread: XScope::cbs_
    lock,         \* fallback_: 0 when free, else the owning thread
    txActive,     \* per thread: a hardware transaction is open
    rset,         \* per thread: counter is in the transaction's read set
    wbuf,         \* per thread: speculative value of counter, or NoVal
    counter,      \* the shared counter the bodies increment
    tmp,          \* per thread: the value the body read from counter
    invoked,      \* per thread: handlers invoked by exit(), in order
    nbegins,      \* per thread: _xbegin() calls made by enter()
    nlocks,       \* per thread: lockFallback() calls made by enter()
    overlap,      \* per thread: its body ran while another ran it locked
    seen          \* per thread: the lock was taken during its transaction

vars == <<pc, attempt, xact_status, cbs, lock, txActive, rset, wbuf, counter,
          tmp, invoked, nbegins, nlocks, overlap, seen>>

BodyPcs == {"body_read", "body_write", "exit"}
EndedPcs == {"callbacks", "done", "fault"}

\* the process is alive: no thread has taken the fault of _xend() outside a
\* transaction
Running == \A t \in Threads : pc[t] # "fault"

Init ==
    /\ pc = [t \in Threads |-> "loop"]
    /\ attempt = [t \in Threads |-> 0]
    /\ xact_status = [t \in Threads |-> NoStatus]
    /\ cbs = [t \in Threads |-> << >>]
    /\ lock = 0
    /\ txActive = [t \in Threads |-> FALSE]
    /\ rset = [t \in Threads |-> FALSE]
    /\ wbuf = [t \in Threads |-> NoVal]
    /\ counter = 0
    /\ tmp = [t \in Threads |-> 0]
    /\ invoked = [t \in Threads |-> << >>]
    /\ nbegins = [t \in Threads |-> 0]
    /\ nlocks = [t \in Threads |-> 0]
    /\ overlap = [t \in Threads |-> FALSE]
    /\ seen = [t \in Threads |-> FALSE]

\* ------------------------------------------------- XScope member functions

\* XScope::isFallbackLocked(): the generic definition; the per-lock
\* specializations are commented out in the source.
isFallbackLocked(t) == FALSE

\* XScope::lockFallback(): fallback_.lock() / pthread_mutex_lock: enabled
\* only while the lock is free (the caller blocks otherwise)
CanLock(t) == lock = 0
lockFallback(t) == t

\* a release that leaves the lock with its owner
unlockFallbackKeepsOwner(t) == t

\* XScope::unlockFallback(): fallback_.unlock() / pthread_mutex_unlock
unlockFallback(t) == 0

\* a loop that allows one attempt too many
LoopTestOffByOne(a) == a <= nretries + 1

\* the test `attempt <= nretries` of the for loop of enter()
LoopTest(a) == a <= nretries

\* a contention test that forgets the explicit bit
IsContentionAbortCodeOnly(status) == XABORT_CODE(status) = CONTENTION_CODE

\* the classification of an abort status in enter()
IsContentionAbort(status) ==
    HasBit(status, XABORT_EXPLICIT) /\ XABORT_CODE(status) = CONTENTION_CODE

IsRetryHinted(status) == HasBit(status, XABORT_RETRY)

\* ------------------------------------------------- hardware transactions

\* The transactions of the threads in V abort: their speculative writes
\* (counter, cbs_, the body's local) are discarded and control resumes at
\* the return of _xbegin() with status st[u].  Thread t takes the values
\* given; every other thread keeps its own.
Upd(fn, V, reset, t, val) ==
    [u \in Threads |-> IF u \in V THEN reset ELSE IF u = t THEN val ELSE fn[u]]

RollBack(V, st, t, newPc, newRset, newWbuf, newTmp) ==
    /\ pc' = Upd(pc, V, "status", t, newPc)
    /\ xact_status' = [u \in Threads |-> IF u \in V THEN st[u] ELSE xact_status[u]]
    /\ cbs' = [u \in Threads |-> IF u \in V THEN << >> ELSE cbs[u]]
    /\ txActive' = [u \in Threads |-> IF u \in V THEN FALSE ELSE txActive[u]]
    /\ rset' = Upd(rset, V, FALSE, t, newRset)
    /\ wbuf' = Upd(wbuf, V, NoVal, t, newWbuf)
    /\ tmp' = Upd(tmp, V, 0, t, newTmp)

\* transactions of other threads that a read of counter by t aborts
ReadVictims(t) == {u \in Threads \ {t} : txActive[u] /\ wbuf[u] # NoVal}

\* transactions of other threads that a write of counter by t aborts
WriteVictims(t) ==
    {u \in Threads \ {t} : txActive[u] /\ (rset[u] \/ wbuf[u] # NoVal)}

\* History: overlap[t] records that t was in its critical section while
\* another thread was in the same critical section holding the fallback
\* lock.  It is forgotten when t's attempt is rolled back.
Overlapped(t) ==
    IF pc'[t] \in BodyPcs
      THEN overlap[t] \/ (\E a \in Threads \ {t} : pc'[a] \in BodyPcs /\ lock' = a)
      ELSE IF pc'[t] \in EndedPcs THEN overlap[t] ELSE FALSE

\* History: seen[t] records that another thread acquired the fallback lock
\* while the transaction t has open now was open.
LockTakenDuring(t) ==
    IF txActive'[t]
      THEN (txActive[t] /\ seen[t]) \/ (lock' # lock /\ lock' \notin {0, t})
      ELSE FALSE

Track ==
    /\ overlap' = [u \in Threads |-> Overlapped(u)]
    /\ seen' = [u \in Threads |-> LockTakenDuring(u)]

\* --------------------------------------------------------- XScope::enter

\* for (...; attempt <= nretries; ...) xact_status = _xbegin();
XBegin(t) ==
    /\ Running
    /\ pc[t] = "loop"
    /\ LoopTest(attempt[t])
    /\ pc' = [pc EXCEPT ![t] = "status"]
    /\ xact_status' = [xact_status EXCEPT ![t] = XBEGIN_STARTED]
    /\ txActive' = [txActive EXCEPT ![t] = TRUE]
    /\ nbegins' = [nbegins EXCEPT ![t] = @ + 1]
    /\ UNCHANGED <<attempt, cbs, lock, rset, wbuf, counter, tmp, invoked, nlocks>>
    /\ Track

\* the loop ends with the retries exhausted
LoopExit(t) ==
    /\ Running
    /\ pc[t] = "loop"
    /\ ~LoopTest(attempt[t])
    /\ pc' = [pc EXCEPT ![t] = "fallback"]
    /\ UNCHANGED <<attempt, xact_status, cbs, lock, txActive, rset, wbuf,
                   counter, tmp, invoked, nbegins, nlocks>>
    /\ Track

\* the open transaction of t aborts (interrupt, capacity, explicit abort
\* in the body, ...): _xbegin() returns again, with an abort status
Abort(t) ==
    /\ Running
    /\ txActive[t]
    /\ \E s \in AbortStatuses :
          RollBack({t}, [u \in {t} |-> s], t, "status", FALSE, NoVal, 0)
    /\ UNCHANGED <<attempt, lock, counter, invoked, nbegins, nlocks>>
    /\ Track

\* if (xact_status == _XBEGIN_STARTED) { if (!isFallbackLocked()) return;
\*                                       else _xabort(0xFF); }
Started(t) ==
    /\ Running
    /\ pc[t] = "status"
    /\ xact_status[t] = XBEGIN_STARTED
    /\ IF ~isFallbackLocked(t)
         THEN /\ pc' = [pc EXCEPT ![t] = "body_read"]
              /\ xact_status' = [xact_status EXCEPT ![t] = NoStatus]
              /\ UNCHANGED <<cbs, txActive, rset, wbuf, tmp>>
         ELSE RollBack({t}, [u \in {t} |-> XAbortStatus(CONTENTION_CODE)],
                       t, "status", FALSE, NoVal, 0)
    /\ UNCHANGED <<attempt, lock, counter, invoked, nbegins, nlocks>>
    /\ Track

\* `return` in place of `break`: the body runs with neither mode entered
NextPcReturnsOnBreak(status) ==
    IF IsContentionAbort(status) THEN "wait_lock"
    ELSE IF ~IsRetryHinted(status) THEN "body_read"
    ELSE "loop"

\* the retry hint tested before the contention code
NextPcRetryTestedFirst(status) ==
    IF ~IsRetryHinted(status) THEN "fallback"
    ELSE IF IsContentionAbort(status) THEN "wait_lock"
    ELSE "loop"

\* the retry hint ignored: every other abort is retried
NextPcIgnoresHint(status) ==
    IF IsContentionAbort(status) THEN "wait_lock" ELSE "loop"

\* every retried abort waits on the lock
NextPcWaitsOnRetry(status) ==
    IF IsContentionAbort(status) \/ IsRetryHinted(status) THEN "wait_lock"
    ELSE "fallback"

\* else { if (explicit && code == 0xFF) {...} else if (!retry) break; }
NextPcAfterAbort(status) ==
    IF IsContentionAbort(status) THEN "wait_lock"
    ELSE IF ~IsRetryHinted(status) THEN "fallback"
    ELSE "loop"

Aborted(t) ==
    /\ Running
    /\ pc[t] = "status"
    /\ xact_status[t] # XBEGIN_STARTED
    /\ pc' = [pc EXCEPT ![t] = NextPcAfterAbort(xact_status[t])]
    /\ attempt' = [attempt EXCEPT ![t] =
                     IF NextPcAfterAbort(xact_status[t]) = "loop" THEN @ + 1 ELSE @]
    /\ xact_status' = [xact_status EXCEPT ![t] = NoStatus]
    /\ UNCHANGED <<cbs, lock, txActive, rset, wbuf, counter, tmp, invoked,
                   nbegins, nlocks>>
    /\ Track

\* lockFallback(); of the contention branch
WaitLock(t) ==
    /\ Running
    /\ pc[t] = "wait_lock"
    /\ CanLock(t)
    /\ lock' = lockFallback(t)
    /\ nlocks' = [nlocks EXCEPT ![t] = @ + 1]
    /\ pc' = [pc EXCEPT ![t] = "wait_unlock"]
    /\ UNCHANGED <<attempt, xact_status, cbs, txActive, rset, wbuf, counter,
                   tmp, invoked, nbegins>>
    /\ Track

\* a wait step that does not use up an attempt
AttemptAfterWaitNotCounted(a) == a

\* unlockFallback(); of the contention branch, then ++attempt
AttemptAfterWait(a) == a + 1

WaitUnlock(t) ==
    /\ Running
    /\ pc[t] = "wait_unlock"
    /\ lock' = unlockFallback(t)
    /\ attempt' = [attempt EXCEPT ![t] = AttemptAfterWait(@)]
    /\ pc' = [pc EXCEPT ![t] = "loop"]
    /\ UNCHANGED <<xact_status, cbs, txActive, rset, wbuf, counter, tmp,
                   invoked, nbegins, nlocks>>
    /\ Track

\* // Take fallback: lockFallback(); and enter() returns
Fallback(t) ==
    /\ Running
    /\ pc[t] = "fallback"
    /\ CanLock(t)
    /\ lock' = lockFallback(t)
    /\ nlocks' = [nlocks EXCEPT ![t] = @ + 1]
    /\ pc' = [pc EXCEPT ![t] = "body_read"]
    /\ UNCHANGED <<attempt, xact_status, cbs, txActive, rset, wbuf, counter,
                   tmp, invoked, nbegins>>
    /\ Track

\* ------------------------------------------------- the critical section

\* tmp = counter;  (inside the transaction: from its own speculative value
\* when it has one, and counter joins the read set)
BodyRead(t) ==
    /\ Running
    /\ pc[t] = "body_read"
    /\ \E st \in [ReadVictims(t) -> ConflictStatuses] :
          RollBack(ReadVictims(t), st, t, "body_write",
                   txActive[t],
                   wbuf[t],
                   IF txActive[t] /\ wbuf[t] # NoVal THEN wbuf[t] ELSE counter)
    /\ UNCHANGED <<attempt, lock, counter, invoked, nbegins, nlocks>>
    /\ Track

\* counter = tmp + 1;  (inside the transaction: speculatively)
BodyWrite(t) ==
    /\ Running
    /\ pc[t] = "body_write"
    /\ \E st \in [WriteVictims(t) -> ConflictStatuses] :
          RollBack(WriteVictims(t), st, t, "exit",
                   rset[t],
                   IF txActive[t] THEN tmp[t] + 1 ELSE NoVal,
                   tmp[t])
    /\ counter' = IF txActive[t] THEN counter ELSE tmp[t] + 1
    /\ UNCHANGED <<attempt, lock, invoked, nbegins, nlocks>>
    /\ Track

\* the handler the body registers: tagged with the run of the body that
\* registers it (the number of transactions begun so far) and its position
Handler(t) == [run |-> nbegins[t], idx |-> Len(cbs[t]) + 1]

\* XScope::registerCommitCallback, called by the body: cbs_.push_back(cb)
RegisterCommitCallback(t) ==
    /\ Running
    /\ pc[t] \in {"body_read", "body_write"}
    /\ Len(cbs[t]) < MaxCallbacks
    /\ cbs' = [cbs EXCEPT ![t] = Append(@, Handler(t))]
    /\ UNCHANGED <<pc, attempt, xact_status, lock, txActive, rset, wbuf,
                   counter, tmp, invoked, nbegins, nlocks>>
    /\ Track

\* ---------------------------------------------------------- XScope::exit

\* _xend() with a transaction open: the speculative writes become visible
XEndCommit(t) ==
    /\ counter' = IF wbuf[t] # NoVal THEN wbuf[t] ELSE counter
    /\ txActive' = [txActive EXCEPT ![t] = FALSE]
    /\ rset' = [rset EXCEPT ![t] = FALSE]
    /\ wbuf' = [wbuf EXCEPT ![t] = NoVal]
    /\ pc' = [pc EXCEPT ![t] = "callbacks"]
    /\ UNCHANGED lock

\* _xend() with no transaction open: the instruction faults (#GP) and the
\* process is killed
XEndFault(t) ==
    /\ pc' = [pc EXCEPT ![t] = "fault"]
    /\ UNCHANGED <<counter, txActive, rset, wbuf, lock>>

\* if (isFallbackLocked()) unlockFallback(); else _xend();
ExitMode(t) ==
    /\ Running
    /\ pc[t] = "exit"
    /\ IF isFallbackLocked(t)
         THEN /\ lock' = unlockFallback(t)
              /\ pc' = [pc EXCEPT ![t] = "callbacks"]
              /\ UNCHANGED <<counter, txActive, rset, wbuf>>
         ELSE IF txActive[t] THEN XEndCommit(t) ELSE XEndFault(t)
    /\ UNCHANGED <<attempt, xact_status, cbs, tmp, invoked, nbegins, nlocks>>
    /\ Track

\* an exit() that runs the callbacks before it ends the critical section
CallbacksMayRunEarly(t) == pc[t] \in {"exit", "callbacks"}

\* the callback loop of exit() comes after the commit / unlock statement
CallbacksMayRun(t) == pc[t] = "callbacks"

\* for (std::function<void()> &cb : cbs_) cb();   one iteration
NextCallback(t) == Len(invoked[t]) + 1

InvokeCallback(t) ==
    /\ Running
    /\ CallbacksMayRun(t)
    /\ Len(invoked[t]) < Len(cbs[t])
    /\ invoked' = [invoked EXCEPT ![t] = Append(@, cbs[t][NextCallback(t)])]
    /\ UNCHANGED <<pc, attempt, xact_status, cbs, lock, txActive, rset, wbuf,
                   counter, tmp, nbegins, nlocks>>
    /\ Track

\* the loop over cbs_ ends and exit() returns
ExitReturn(t) ==
    /\ Running
    /\ pc[t] = "callbacks"
    /\ Len(invoked[t]) >= Len(cbs[t])
    /\ pc' = [pc EXCEPT ![t] = "done"]
    /\ UNCHANGED <<attempt, xact_status, cbs, lock, txActive, rset, wbuf,
                   counter, tmp, invoked, nbegins, nlocks>>
    /\ Track

\* ------------------------------------------------------- specification

Step(t) ==
    \/ XBegin(t)
    \/ LoopExit(t)
    \/ Abort(t)
    \/ Started(t)
    \/ Aborted(t)
    \/ WaitLock(t)
    \/ WaitUnlock(t)
    \/ Fallback(t)
    \/ BodyRead(t)
    \/ BodyWrite(t)
    \/ RegisterCommitCallback(t)
    \/ ExitMode(t)
    \/ InvokeCallback(t)
    \/ ExitReturn(t)

Next == \E t \in Threads : Step(t)

Spec == Init /\ [][Next]_vars

\* OS threads: a thread that can take a step eventually takes one; a
\* spontaneous abort of an open transaction is never forced
Progress(t) ==
    \/ XBegin(t)
    \/ LoopExit(t)
    \/ Started(t)
    \/ Aborted(t)
    \/ WaitLock(t)
    \/ WaitUnlock(t)
    \/ Fallback(t)
    \/ BodyRead(t)
    \/ BodyWrite(t)
    \/ ExitMode(t)
    \/ InvokeCallback(t)
    \/ ExitReturn(t)

FairSpec ==
    Spec /\ \A t \in Threads :
               WF_vars(Progress(t))

\* ------------------------------------------------------------- properties

\* the critical section of t has ended normally: exit() has committed the
\* transaction or released the lock
Completed(t) == pc[t] \in {"callbacks", "done"}

\* the body of t's scope is being executed under the fallback lock
InLockedBody(t) == pc[t] \in BodyPcs /\ lock = t /\ ~txActive[t]

\* C1: mutual exclusion across mixed modes: no thread completes a critical
\* section that it executed while another thread was executing the same
\* critical section in locked mode.
C1_MutualExclusion == \A t \in Threads : Completed(t) => ~overlap[t]

\* C2: no lost updates: once the destructor of every scope has run, the
\* counter has increased by exactly the number of scopes.
C2_NoLostUpdates ==
    (\A t \in Threads : pc[t] \in EndedPcs) => counter = NThreads

\* C3: contention handoff: enter() never returns to the body at a moment
\* when the fallback lock is held by another thread.
C3_ContentionHandoff ==
    [][\A b \in Threads :
          (pc[b] \notin BodyPcs /\ pc'[b] = "body_read") => lock' \in {0, b}]_vars

\* C4: lock release on exit: once exit() has run, the scope's thread does
\* not hold the fallback lock.
C4_LockReleasedOnExit == \A t \in Threads : pc[t] \in EndedPcs => lock # t

\* C5: eventual entry: under fair scheduling every thread returns from
\* enter() and runs its body.
C5_EventualEntry == \A t \in Threads : <>(pc[t] \in BodyPcs)

\* C6: bounded attempts: one scope entry begins at most nretries + 1
\* hardware transactions, whatever the abort statuses.
C6_BoundedAttempts == \A t \in Threads : nbegins[t] <= nretries + 1

\* C6 witness: a thread used up all nretries + 1 attempts, one of them
\* ended by a contention abort, and entered through the fallback lock.
C6_Witness ==
    \E t \in Threads :
        /\ nbegins[t] = nretries + 1
        /\ attempt[t] = nretries + 1
        /\ nlocks[t] >= 2
        /\ InLockedBody(t)

\* C7 as stated: enter() performs at most one blocking acquire of the
\* fallback lock.
C7_AtMostOneAcquire == \A t \in Threads : nlocks[t] <= 1

\* C7 amended: enter() acquires the fallback lock at most once for each
\* transaction attempt it began (the wait of a contention abort, released
\* at once) and at most once more as the final fallback: never more than
\* nretries + 2 times, and only the final acquire is kept on return.
C7_BoundedAcquires ==
    \A t \in Threads :
        /\ nlocks[t] <= nretries + 2
        /\ nlocks[t] <= nbegins[t] + 1
        /\ (pc[t] \in {"loop", "status", "wait_lock", "fallback"}
              => nlocks[t] <= nbegins[t] /\ lock # t)

\* C7 witness: every attempt ended in a contention abort and the thread
\* then took the fallback: nretries + 2 acquires.
C7_Witness ==
    \E t \in Threads : nlocks[t] = nretries + 2 /\ InLockedBody(t)

\* C8: callbacks exactly once, in order: once the destructor of a scope has
\* run, the handlers registered by the body that took effect have each been
\* invoked once, in registration order, in either mode.
C8_CallbacksExactlyOnce ==
    \A t \in Threads : pc[t] \in {"done", "fault"} => invoked[t] = cbs[t]

\* C9: callbacks run only after the critical section has ended: a thread
\* that is running, or has run, a callback of its scope has no open
\* transaction and does not hold the fallback lock.
C9_CallbacksAfterEnd ==
    \A t \in Threads :
        (pc[t] = "callbacks" \/ Len(invoked[t]) > 0)
            => ~txActive[t] /\ lock # t /\ pc[t] \in {"callbacks", "done"}

\* C9 witness: a scope committed its transaction and has invoked a handler
\* while another thread is still inside the critical section.
C9_Witness ==
    \E t \in Threads :
        /\ pc[t] = "callbacks"
        /\ Len(invoked[t]) >= 1
        /\ \E u \in Threads \ {t} : pc[u] \in BodyPcs

\* the effect of t's body becomes visible in this step: the store of a
\* body run under the lock, or the commit of the transaction
EffectVisible(t) ==
    \/ pc[t] = "body_write" /\ ~txActive[t] /\ pc'[t] = "exit"
    \/ pc[t] = "exit" /\ txActive[t] /\ pc'[t] = "callbacks"

\* C10: body effects exactly once and the same in either mode: whenever
\* the effect of a body becomes visible, by commit or by a store under the
\* lock, it is the increment of the counter by one.
C10_BodyEffectOnce ==
    [][\A t \in Threads : EffectVisible(t) => counter' = counter + 1]_vars

\* the transaction of t commits in this step
Commits(t) == pc[t] = "exit" /\ txActive[t] /\ pc'[t] = "callbacks"

\* C13: lock acquisition is seen by running transactions: a transaction
\* that was open when another thread acquired the fallback lock does not
\* commit.
C13_LockSeenByTransactions ==
    [][\A t \in Threads : Commits(t) => ~seen[t]]_vars

\* t is at the return of _xbegin() with an abort status
AtAbort(t) == pc[t] = "status" /\ xact_status[t] # XBEGIN_STARTED

\* the abort status is the explicit abort with the reserved code 0xFF
Reserved(status) == status.lo % 2 = 1 /\ status.hi = 255

\* the abort status carries the retry hint (bit 1)
Hinted(status) == (status.lo \div 2) % 2 = 1

\* t leaves the top of the loop as the for statement says: one more
\* transaction while attempt <= nretries, else the final fallback
LoopStepOk(t) ==
    (pc[t] = "loop" /\ pc'[t] # "loop") =>
        IF attempt[t] <= nretries
          THEN pc'[t] = "status" /\ txActive'[t] /\ nbegins'[t] = nbegins[t] + 1
               /\ lock' = lock
          ELSE pc'[t] = "fallback" /\ nbegins'[t] = nbegins[t] /\ lock' = lock

\* C11: explicit abort code isolation: an abort that is not the explicit
\* abort with code 0xFF is never answered by the acquire-then-release wait
\* on the lock, only by the retry-hint rule.
C11_AbortCodeIsolation ==
    [][\A t \in Threads :
          (AtAbort(t) /\ ~Reserved(xact_status[t]) /\ pc'[t] # "status") =>
              /\ pc'[t] = (IF Hinted(xact_status[t]) THEN "loop" ELSE "fallback")
              /\ lock' = lock
              /\ nlocks'[t] = nlocks[t]]_vars

\* C11 witness: after attempts that touched no lock, an abort arrives that
\* is explicit with code 1, or not explicit with code bits 0xFF.
C11_Witness ==
    \E t \in Threads :
        /\ AtAbort(t)
        /\ attempt[t] >= 1
        /\ nlocks[t] = 0
        /\ xact_status[t] \in {Word(1, XABORT_EXPLICIT), Word(255, XABORT_RETRY)}

\* C12: exactly one terminal mode: in the body, after enter() has returned,
\* the thread either has a transaction open and does not hold the lock, or
\* holds the lock and has no transaction open.
C12_ExactlyOneMode ==
    \A t \in Threads :
        pc[t] \in BodyPcs =>
            \/ txActive[t] /\ lock # t
            \/ ~txActive[t] /\ lock = t

\* C12 witness: one thread is in its body in transactional mode and another
\* in locked mode.
C12_Witness ==
    \E t, u \in Threads :
        /\ pc[t] = "body_read" /\ txActive[t] /\ lock # t
        /\ pc[u] = "body_read" /\ ~txActive[u] /\ lock = u

\* C14: exit action matches the entry mode: exit() of a scope that holds
\* the lock releases it and commits nothing; exit() of a scope with an open
\* transaction commits it and leaves the lock alone.
C14_ExitMatchesMode ==
    [][\A t \in Threads :
          (pc[t] = "exit" /\ pc'[t] \in EndedPcs) =>
              /\ (lock = t => lock' = 0 /\ pc'[t] = "callbacks")
              /\ (txActive[t] => lock' = lock /\ ~txActive'[t])]_vars

\* C15: contention abort handling: the explicit abort with code 0xFF is
\* answered by lockFallback(); unlockFallback(); with or without the retry
\* hint, then by the next attempt, or by the final fallback when none is
\* left.
C15_ContentionAbort ==
    [][\A t \in Threads :
          /\ (AtAbort(t) /\ Reserved(xact_status[t]) /\ pc'[t] # "status") =>
                 pc'[t] = "wait_lock" /\ lock' = lock /\ attempt'[t] = attempt[t]
          /\ (pc[t] = "wait_lock" /\ pc'[t] # "wait_lock") =>
                 pc'[t] = "wait_unlock" /\ lock = 0 /\ lock' = t
          /\ (pc[t] = "wait_unlock" /\ pc'[t] # "wait_unlock") =>
                 pc'[t] = "loop" /\ lock' = 0 /\ attempt'[t] = attempt[t] + 1
          /\ LoopStepOk(t)]_vars

\* C15 witness: the last attempt ends in a contention abort without the
\* retry hint, after a wait on the lock for every earlier attempt.
C15_Witness ==
    \E t \in Threads :
        /\ AtAbort(t)
        /\ xact_status[t] = Word(255, XABORT_EXPLICIT)
        /\ attempt[t] = nretries
        /\ nlocks[t] = nretries

\* C16: no retry without hint: an abort that is not the contention abort
\* and carries no retry hint is followed by no further transaction: the
\* thread acquires the lock and returns in locked mode.
C16_NoRetryWithoutHint ==
    [][\A t \in Threads :
          /\ (AtAbort(t) /\ ~Reserved(xact_status[t]) /\ ~Hinted(xact_status[t])
                /\ pc'[t] # "status") =>
                 pc'[t] = "fallback" /\ nbegins'[t] = nbegins[t]
          /\ (pc[t] = "fallback" /\ pc'[t] # "fallback") =>
                 /\ pc'[t] = "body_read"
                 /\ lock = 0 /\ lock' = t
                 /\ ~txActive'[t]
                 /\ nbegins'[t] = nbegins[t]]_vars

\* C16 witness: a thread is in the body in locked mode after one attempt,
\* with retries left.
C16_Witness ==
    \E t \in Threads :
        InLockedBody(t) /\ attempt[t] = 0 /\ nbegins[t] = 1 /\ nlocks[t] = 1

\* C17: retry on hint leaves the lock alone: after an abort that is not the
\* contention abort and carries the retry hint, the thread goes on to the
\* next attempt without touching the lock; on this path the lock is taken
\* only when attempt has passed nretries.
C17_RetryLeavesLock ==
    [][\A t \in Threads :
          /\ (AtAbort(t) /\ ~Reserved(xact_status[t]) /\ Hinted(xact_status[t])
                /\ pc'[t] # "status") =>
                 /\ pc'[t] = "loop"
                 /\ attempt'[t] = attempt[t] + 1
                 /\ lock' = lock
                 /\ nlocks'[t] = nlocks[t]
          /\ LoopStepOk(t)
          /\ (nlocks[t] = 0 /\ nlocks'[t] = 1 /\ attempt[t] <= nretries) =>
                 pc[t] \in {"wait_lock", "fallback"} /\ nbegins[t] = attempt[t] + 1]_vars

\* C17 witness: all nretries + 1 attempts ended in hinted aborts and the
\* only acquire of the lock is the final one.
C17_Witness ==
    \E t \in Threads :
        InLockedBody(t) /\ attempt[t] = nretries + 1 /\ nlocks[t] = 1

\* C18: no thread has a transaction open while it holds the fallback lock;
\* a thread at the top of the loop or at the return of _xbegin() does not
\* hold the lock; the wait step and the final acquire run with no
\* transaction open; the lock is held only inside the wait step or from
\* the final acquire on.
C18_NoTransactionUnderLock ==
    \A t \in Threads :
        /\ ~(txActive[t] /\ lock = t)
        /\ (pc[t] \in {"loop", "status", "wait_lock", "fallback"} => lock # t)
        /\ (pc[t] \in {"wait_lock", "wait_unlock", "fallback"} => ~txActive[t])
        /\ (lock = t => pc[t] \in {"wait_unlock", "fault"} \cup BodyPcs)

\* C18 witness: a thread that waited on the lock has released it and has
\* its next transaction open.
C18_Witness ==
    \E t \in Threads : txActive[t] /\ nlocks[t] >= 1 /\ lock = 0

====
